---- MODULE Spec2Model ----
(***************************************************************************)
(* Model of k8s-backup (main.go, config.go): the quiesce / archive /       *)
(* upload / restore workflow of Application.Run, with Go's defer stack,    *)
(* its contexts, and the collaborators (cluster, file system, object       *)
(* storage, Telegram) as nondeterministic environments.                    *)
(***************************************************************************)
EXTENDS Integers, Sequences, FiniteSets, TLC

\* ---------------------------------------------------------------- bounds
MaxReplicas == 2
MaxPolls == 2
MaxSize == 2

\* ------------------------------------------------------- errors (fmt.Errorf)
\* An error is the sequence of its message segments; Nil is the nil error.
Nil == << >>

\* fmt.Errorf("<msg>: %w", e); a nil operand prints as %!w(<nil>)
Errorf(msg, e) == <<msg>> \o (IF e = Nil THEN <<"%!w(<nil>)">> ELSE e)

\* fmt.Errorf("%w: %w", e1, e2)
ErrorfJoin(e1, e2) ==
    (IF e1 = Nil THEN <<"%!w(<nil>)">> ELSE e1) \o (IF e2 = Nil THEN <<"%!w(<nil>)">> ELSE e2)

Contains(e, seg) == \E i \in 1..Len(e) : e[i] = seg

\* errors returned by the collaborators
ErrCtx == <<"context deadline exceeded">>
ErrGet == <<"scale get failed">>
ErrPatch == <<"scale patch failed">>
ErrListRS == <<"replicaset list failed">>
ErrGetRS == <<"replicaset not found">>
ErrListPods == <<"pod list failed">>
ErrCreate == <<"create failed">>
ErrTar == <<"tar write failed">>
ErrPut == <<"put object failed">>

\* ------------------------------------------------------------- config.go
\* RESOURCE_ID values: a string is a sequence of tokens, "/" being the separator
ResourceIDs ==
    { <<"deployment", "/", "web">>,
      <<"statefulsets", "/", "web">>,
      <<"replicaset", "/", "web">>,
      <<"deployments", "/", "replicasets">>,
      <<"Deployment", "/", "web">>,
      <<"pod", "/", "web">>,
      <<"deployment", "/">>,
      <<"web">>,
      << >> }

FirstSlash(s) ==
    IF \E i \in 1..Len(s) : s[i] = "/"
    THEN CHOOSE i \in 1..Len(s) : s[i] = "/" /\ \A j \in 1..(i - 1) : s[j] # "/"
    ELSE 0

\* strings.SplitN(s, "/", 2)
SplitN2(s) ==
    IF FirstSlash(s) = 0 THEN <<s>>
    ELSE <<SubSeq(s, 1, FirstSlash(s) - 1), SubSeq(s, FirstSlash(s) + 1, Len(s))>>

KnownTypes ==
    { <<"deployment">>, <<"deployments">>, <<"statefulset">>, <<"statefulsets">>,
      <<"replicaset">>, <<"replicasets">> }

\* validID without its check of an empty NAME
ValidIDBug(s) ==
    /\ s # << >>
    /\ Len(SplitN2(s)) # 1
    /\ SplitN2(s)[1] \in KnownTypes

\* the validID closure of ResourceConfig.Validate, after Required(true)
ValidID(s) ==
    /\ s # << >>
    /\ Len(SplitN2(s)) # 1
    /\ SplitN2(s)[1] \in KnownTypes
    /\ Len(SplitN2(s)[2]) # 0

\* the switch without the plural "replicasets" label
ResourceTypeOfBug(t) ==
    IF t \in {<<"deployment">>, <<"deployments">>} THEN "deployments"
    ELSE IF t \in {<<"statefulset">>, <<"statefulsets">>} THEN "statefulsets"
    ELSE IF t \in {<<"replicaset">>} THEN "replicasets"
    ELSE ""

\* the switch of NewApplication on resourceParts[0]
ResourceTypeOf(t) ==
    IF t \in {<<"deployment">>, <<"deployments">>} THEN "deployments"
    ELSE IF t \in {<<"statefulset">>, <<"statefulsets">>} THEN "statefulsets"
    ELSE IF t \in {<<"replicaset">>, <<"replicasets">>} THEN "replicasets"
    ELSE ""

\* the switch with the plural "statefulsets" case missing
ResourceKindOfBug(t) ==
    IF t \in {<<"deployment">>, <<"deployments">>} THEN "Deployment"
    ELSE IF t \in {<<"statefulset">>} THEN "StatefulSet"
    ELSE IF t \in {<<"replicaset">>, <<"replicasets">>} THEN "ReplicaSet"
    ELSE ""

ResourceKindOf(t) ==
    IF t \in {<<"deployment">>, <<"deployments">>} THEN "Deployment"
    ELSE IF t \in {<<"statefulset">>, <<"statefulsets">>} THEN "StatefulSet"
    ELSE IF t \in {<<"replicaset">>, <<"replicasets">>} THEN "ReplicaSet"
    ELSE ""

\* ------------------------------------------------------------ the cluster
NoOwners == << >>
RsA == [name |-> <<"web-1">>, owners |-> <<[kind |-> "Deployment", name |-> <<"web">>]>>, hash |-> "hA"]
RsB == [name |-> <<"web">>, owners |-> NoOwners, hash |-> "hB"]
RsC == [name |-> <<"replicasets">>, owners |-> NoOwners, hash |-> "hC"]

\* the ReplicaSets the namespace may hold
RsLists == { << >>, <<RsA, RsB>>, <<RsB, RsC>> }

\* the label carried by the workload's pods
PodsHash == "hA"

\* ------------------------------------------------------------- contexts
\* parent of each context; "background" is context.Background()
RunCtxParent == "background"
RestoreCtxParentBug == "run"
RestoreCtxParent == "background"
ArchiveCtxParent == "background"
UploadCtxParent == "background"

CtxParent(c) ==
    CASE c = "run" -> RunCtxParent
      [] c = "restore" -> RestoreCtxParent
      [] c = "archive" -> ArchiveCtxParent
      [] c = "upload" -> UploadCtxParent
      [] OTHER -> "none"

\* ctx.Done() is closed: the context or an ancestor expired or was cancelled
Done(c, exp) ==
    \/ c \in exp
    \/ CtxParent(c) \in exp
    \/ CtxParent(CtxParent(c)) \in exp

VARIABLES
    env,            \* the environment variables read by env.Parse
    pc,             \* position of the single thread of control
    app,            \* the fields of Application
    err,            \* Run's named result err
    replicas,       \* scaleDown's local, captured by the undo closure
    defers,         \* Run's stack of deferred calls, last registered last
    panicking,      \* a run-time panic is unwinding Run
    expired,        \* contexts whose deadline passed or that were cancelled
    expiredAt,      \* position of the run when the run deadline passed
    polls,          \* iterations of the wait loop that went to sleep
    selector,       \* pod-template-hash resolved by wait
    waitErr,        \* error returned by wait
    scaleSpec,      \* cluster: spec.replicas of the target's scale subresource
    pods,           \* cluster: pods of the workload still running
    preRun,         \* cluster: spec.replicas before the run (history)
    rsList,         \* cluster: the ReplicaSets of the namespace
    file,           \* the temporary archive file
    calls,          \* requests issued to the collaborators and the file system, in order
    notified,       \* success flags notify was invoked with, in order
    exitCode,       \* process exit status, -1 while running
    progress        \* the uploadProgress of the upload and what it logged

vars == <<env, pc, app, err, replicas, defers, panicking, expired, expiredAt, polls,
          selector, waitErr, scaleSpec, pods, preRun, rsList, file, calls, notified,
          exitCode, progress>>

NoApp == [resourceType |-> "", resourceKind |-> "", resourceName |-> << >>,
          tgBot |-> FALSE, archiveFile |-> FALSE, archiveSize |-> 0]

\* read: bytes the storage client took from the archive; obs: the log lines
NoProgress == [current |-> 0, total |-> 0, read |-> 0, obs |-> << >>]

NoFile == [onDisk |-> FALSE, open |-> FALSE, created |-> 0, removed |-> 0, closed |-> 0]

Init ==
    /\ env \in [id : ResourceIDs, wait : BOOLEAN, botToken : BOOLEAN,
                restValid : BOOLEAN, clientsOk : BOOLEAN]
    /\ pc = "main"
    /\ app = NoApp
    /\ err = Nil
    /\ replicas = 0
    /\ defers = << >>
    /\ panicking = FALSE
    /\ expired = {}
    /\ expiredAt = "none"
    /\ polls = 0
    /\ selector = ""
    /\ waitErr = Nil
    /\ scaleSpec \in 0..MaxReplicas
    /\ pods \in 0..scaleSpec
    /\ preRun = scaleSpec
    /\ rsList \in RsLists
    /\ file = NoFile
    /\ calls = << >>
    /\ notified = << >>
    /\ exitCode = -1
    /\ progress = NoProgress

\* a request to a collaborator, as it is issued
Req(op, n, c, ok) == [op |-> op, n |-> n, ctx |-> c, ctxDone |-> Done(c, expired), ok |-> ok]

\* results a call under context c can have: a done context always fails
Outcomes(c) == IF Done(c, expired) THEN {FALSE} ELSE {TRUE, FALSE}

\* ------------------------------------------------------ NewApplication, main
\* Config.Validate
ConfigValid(e) == ValidID(e.id) /\ e.restValid

\* main.go:44-102 and main's exit on error (473-477)
NewApplication ==
    /\ pc = "main"
    /\ IF ConfigValid(env) /\ env.clientsOk
       THEN /\ app' = [NoApp EXCEPT !.resourceName = SplitN2(env.id)[2],
                                    !.resourceType = ResourceTypeOf(SplitN2(env.id)[1]),
                                    !.resourceKind = ResourceKindOf(SplitN2(env.id)[1]),
                                    !.tgBot = env.botToken]
            /\ pc' = "Run"
            /\ exitCode' = exitCode
       ELSE /\ app' = app
            /\ pc' = "exited"
            /\ exitCode' = 1
    /\ UNCHANGED <<env, err, replicas, defers, panicking, expired, expiredAt, polls,
                   selector, waitErr, scaleSpec, pods, preRun, rsList, file, calls, notified,
                   progress>>

\* ------------------------------------------------------------ Application.Run
\* error a failed call under context c reports
Cause(c, e) == IF Done(c, expired) THEN ErrCtx ELSE e

\* main.go:104-116: defer notify, the run context with its timeout, defer cancel
RunEnter ==
    /\ pc = "Run"
    /\ defers' = <<"notify", "cancel">>
    /\ pc' = "getReplicas"
    /\ UNCHANGED <<env, app, err, replicas, panicking, expired, expiredAt, polls, selector,
                   waitErr, scaleSpec, pods, preRun, rsList, file, calls, notified, exitCode,
                   progress>>

\* the deadline of the run context passes (context.WithTimeout, 3 minutes)
DeadlineExpires ==
    /\ pc \in {"getReplicas", "scaleZero", "podHash", "poll", "sleep", "scaleDownReturn",
               "archive", "archiving", "upload", "uploading"}
    /\ "run" \notin expired
    /\ expired' = expired \cup {"run"}
    /\ expiredAt' = pc
    /\ UNCHANGED <<env, pc, app, err, replicas, defers, panicking, polls, selector, waitErr,
                   scaleSpec, pods, preRun, rsList, file, calls, notified, exitCode,
                   progress>>

\* the scale object the cluster serves for GET .../scale
ScaleObject == [spec |-> [replicas |-> scaleSpec], status |-> [replicas |-> pods]]

\* getReplicas: replicas = obj.Spec.Replicas (main.go:238-243)
ReplicasOfBug(obj) == obj.status.replicas
ReplicasOf(obj) == obj.spec.replicas

\* scaleDown after getReplicas (main.go:309-312) and Run's check (118-122)
AfterGetReplicasBug(ok) == "scaleZero"
AfterGetReplicas(ok) == IF ok THEN "scaleZero" ELSE "return"

\* main.go:223-247 called from scaleDown
GetReplicas ==
    /\ pc = "getReplicas"
    /\ \E ok \in Outcomes("run") :
        /\ calls' = Append(calls, Req("getScale", -1, "run", ok))
        /\ replicas' = IF ok THEN ReplicasOf(ScaleObject) ELSE 0
        /\ err' = IF ok THEN err
                  ELSE Errorf("failed to scale down",
                         Errorf("failed to get current number of replicas",
                           Errorf("failed to get resource", Cause("run", ErrGet))))
        /\ pc' = AfterGetReplicas(ok)
    /\ UNCHANGED <<env, app, defers, panicking, expired, expiredAt, polls, selector, waitErr,
                   scaleSpec, pods, preRun, rsList, file, notified, exitCode,
                   progress>>

\* scaleDown after scale(ctx, 0): return the error, or wait only when
\* config.Resource.Wait is set (main.go:314-322)
AfterScaleZeroBug(ok, wait) == IF ~ok THEN "return" ELSE "podHash"
AfterScaleZero(ok, wait) == IF ~ok THEN "return" ELSE IF wait THEN "podHash" ELSE "scaleDownReturn"

\* scale(ctx, 0) and the branch on config.Resource.Wait (main.go:314-322)
ScaleToZero ==
    /\ pc = "scaleZero"
    /\ \E ok \in Outcomes("run") :
        /\ calls' = Append(calls, Req("patchScale", 0, "run", ok))
        /\ scaleSpec' = IF ok THEN 0 ELSE scaleSpec
        /\ err' = IF ok THEN err
                  ELSE Errorf("failed to scale down",
                         Errorf("failed to scale down",
                           Errorf("failed to scale to 0", Cause("run", ErrPatch))))
        /\ pc' = AfterScaleZero(ok, env.wait)
    /\ UNCHANGED <<env, app, replicas, defers, panicking, expired, expiredAt, polls, selector,
                   waitErr, pods, preRun, rsList, file, notified, exitCode,
                   progress>>

\* a pod of the scaled-down workload terminates
PodTerminates ==
    /\ pc \in {"podHash", "poll", "sleep"}
    /\ scaleSpec = 0
    /\ pods > 0
    /\ pods' = pods - 1
    /\ UNCHANGED <<env, pc, app, err, replicas, defers, panicking, expired, expiredAt, polls,
                   selector, waitErr, scaleSpec, preRun, rsList, file, calls, notified, exitCode,
                   progress>>

\* the owner-reference scan of getPodTemplateHash (main.go:191-199): the inner
\* break leaves the outer loop running, so the last matching item is kept;
\* 0 stands for the nil pointer
Owned(item, kind, name) ==
    \E k \in 1..Len(item.owners) : item.owners[k].kind = kind /\ item.owners[k].name = name

FindOwned(list, kind, name) ==
    IF \E i \in 1..Len(list) : Owned(list[i], kind, name)
    THEN CHOOSE i \in 1..Len(list) :
            /\ Owned(list[i], kind, name)
            /\ \A j \in (i + 1)..Len(list) : ~Owned(list[j], kind, name)
    ELSE 0

\* replicasets.Get(ctx, name): index of the ReplicaSet of that name, 0 if absent
FindNamed(list, name) ==
    IF \E i \in 1..Len(list) : list[i].name = name
    THEN CHOOSE i \in 1..Len(list) : list[i].name = name
    ELSE 0

\* the branch of getPodTemplateHash (main.go:186): list-and-filter or direct get
UsesList(a) == a.resourceName # <<"replicasets">>

\* wait's call of getPodTemplateHash (main.go:178-211, 283-287)
GetPodTemplateHash ==
    /\ pc = "podHash"
    /\ \E ok \in Outcomes("run") :
        IF UsesList(app)
        THEN /\ calls' = Append(calls, Req("listRS", -1, "run", ok))
             /\ IF ~ok
                THEN /\ waitErr' = Errorf("failed to get pod template hash",
                                     Errorf("failed to list replicasets", Cause("run", ErrListRS)))
                     /\ pc' = "scaleDownReturn"
                     /\ UNCHANGED <<selector, panicking>>
                ELSE IF FindOwned(rsList, app.resourceKind, app.resourceName) = 0
                THEN \* replicaset is nil: replicaset.Labels panics
                     /\ panicking' = TRUE
                     /\ pc' = "return"
                     /\ UNCHANGED <<selector, waitErr>>
                ELSE /\ selector' = rsList[FindOwned(rsList, app.resourceKind, app.resourceName)].hash
                     /\ pc' = "poll"
                     /\ UNCHANGED <<waitErr, panicking>>
        ELSE /\ calls' = Append(calls, Req("getRS", -1, "run", ok /\ FindNamed(rsList, app.resourceName) # 0))
             /\ IF ok /\ FindNamed(rsList, app.resourceName) # 0
                THEN /\ selector' = rsList[FindNamed(rsList, app.resourceName)].hash
                     /\ pc' = "poll"
                     /\ UNCHANGED <<waitErr, panicking>>
                ELSE /\ waitErr' = Errorf("failed to get pod template hash",
                                     Errorf("failed to get replicaset", Cause("run", ErrGetRS)))
                     /\ pc' = "scaleDownReturn"
                     /\ UNCHANGED <<selector, panicking>>
    /\ UNCHANGED <<env, app, err, replicas, defers, expired, expiredAt, polls, scaleSpec, pods,
                   preRun, rsList, file, notified, exitCode,
                   progress>>

\* pods the list under the selector returns
PodsUnder(sel) == IF sel = PodsHash THEN pods ELSE 0

\* the wait loop after a pod list (main.go:293-300): an error ends wait, which
\* scaleDown only logs (main.go:319-321); an empty list breaks; else sleep
AfterListPodsRetry(ok, n) == IF ok /\ n = 0 THEN "scaleDownReturn" ELSE "sleep"
AfterListPodsFatal(ok, n) == IF ~ok THEN "return" ELSE IF n = 0 THEN "scaleDownReturn" ELSE "sleep"
AfterListPods(ok, n) == IF ~ok \/ n = 0 THEN "scaleDownReturn" ELSE "sleep"

\* one iteration of the wait loop up to the sleep (main.go:289-299)
ListPods ==
    /\ pc = "poll"
    /\ \E ok \in Outcomes("run") :
        /\ calls' = Append(calls, Req("listPods", -1, "run", ok))
        /\ waitErr' = IF ok THEN Nil ELSE Errorf("failed to list pods", Cause("run", ErrListPods))
        /\ pc' = AfterListPods(ok, PodsUnder(selector))
    /\ UNCHANGED <<env, app, err, replicas, defers, panicking, expired, expiredAt, polls,
                   selector, scaleSpec, pods, preRun, rsList, file, notified, exitCode,
                   progress>>

\* time.Sleep(5 * time.Second) (main.go:300); after MaxPolls sleeps the
\* 3-minute deadline of the run context has passed
Sleep ==
    /\ pc = "sleep"
    /\ polls < MaxPolls
    /\ polls' = polls + 1
    /\ pc' = "poll"
    /\ IF polls + 1 >= MaxPolls /\ "run" \notin expired
       THEN expired' = expired \cup {"run"} /\ expiredAt' = "sleep"
       ELSE UNCHANGED <<expired, expiredAt>>
    /\ UNCHANGED <<env, app, err, replicas, defers, panicking, selector, waitErr, scaleSpec,
                   pods, preRun, rsList, file, calls, notified, exitCode,
                   progress>>

\* the stack of deferred calls: the last registered runs first
Top(d) == d[Len(d)]
Pop(d) == SubSeq(d, 1, Len(d) - 1)

\* Run registers the deferred restore once scaleDown returned (main.go:123-146)
RegisterRestoreBug(d) == d
RegisterRestore(d) == Append(d, "restore")

\* scaleDown builds the undo closure and returns it (main.go:324-331)
ScaleDownReturn ==
    /\ pc = "scaleDownReturn"
    /\ defers' = RegisterRestore(defers)
    /\ pc' = "archive"
    /\ UNCHANGED <<env, app, err, replicas, panicking, expired, expiredAt, polls, selector,
                   waitErr, scaleSpec, pods, preRun, rsList, file, calls, notified, exitCode,
                   progress>>

\* archive: os.Create of the temporary file (main.go:335-344)
ArchiveCreate ==
    /\ pc = "archive"
    /\ \E ok \in BOOLEAN :
        IF ok
        THEN /\ file' = [file EXCEPT !.onDisk = TRUE, !.open = TRUE, !.created = @ + 1]
             /\ pc' = "archiving"
             /\ err' = err
        ELSE /\ file' = file
             /\ pc' = "return"
             /\ err' = Errorf("failed to archive", Errorf("failed to create archive file", ErrCreate))
    /\ UNCHANGED <<env, app, replicas, defers, panicking, expired, expiredAt, polls, selector,
                   waitErr, scaleSpec, pods, preRun, rsList, calls, notified, exitCode,
                   progress>>

\* Run goes on to the upload only when archive returned no error (main.go:151-154)
AfterArchiveBug(ok) == "upload"
AfterArchive(ok) == IF ok THEN "upload" ELSE "return"

\* Run registers the deferred cleanup once archive returned nil (main.go:155-160)
RegisterCleanupBug(d) == Pop(d) \o <<"cleanup", Top(d)>>
RegisterCleanup(d) == Append(d, "cleanup")

\* archive: the tar/gzip stream, errdefer.Close on failure, and on success the
\* fields set at main.go:366-368 and Run's deferred cleanup (main.go:155-160)
ArchiveWrite ==
    /\ pc = "archiving"
    /\ \E ok \in BOOLEAN, sz \in 0..MaxSize :
        IF ok
        THEN /\ app' = [app EXCEPT !.archiveFile = TRUE, !.archiveSize = sz]
             /\ defers' = RegisterCleanup(defers)
             /\ pc' = AfterArchive(ok)
             /\ UNCHANGED <<file, err>>
        ELSE /\ sz = 0
             /\ file' = [file EXCEPT !.open = FALSE, !.closed = @ + 1]
             /\ err' = Errorf("failed to archive", Errorf("failed to archive directory", ErrTar))
             /\ pc' = AfterArchive(ok)
             /\ UNCHANGED <<app, defers>>
    /\ UNCHANGED <<env, replicas, panicking, expired, expiredAt, polls, selector, waitErr,
                   scaleSpec, pods, preRun, rsList, calls, notified, exitCode,
                   progress>>

\* uploadProgress.Read (main.go:381-388): current += len(b)
ProgressReadBug(cur, lenb) == lenb
ProgressRead(cur, lenb) == cur + lenb

\* upload: PutObject is called with a new uploadProgress (main.go:390-413)
UploadBegin ==
    /\ pc = "upload"
    /\ pc' = "uploading"
    /\ progress' = [NoProgress EXCEPT !.current = 0, !.total = app.archiveSize]
    /\ UNCHANGED <<env, app, err, replicas, defers, panicking, expired, expiredAt, polls,
                   selector, waitErr, scaleSpec, pods, preRun, rsList, file, calls, notified,
                   exitCode>>

\* upload: the storage client reads n more bytes of the archive into b and
\* hands b[:n] to Progress.Read, which logs one line (main.go:381-388)
UploadRead ==
    /\ pc = "uploading"
    /\ ~Done("upload", expired)
    /\ \E n \in 1..(app.archiveSize - progress.read) :
        progress' = [progress EXCEPT
                        !.read = @ + n,
                        !.current = ProgressRead(@, n),
                        !.obs = Append(@, [n |-> n,
                                           bytesMoved |-> ProgressRead(progress.current, n),
                                           totalBytes |-> progress.total])]
    /\ UNCHANGED <<env, pc, app, err, replicas, defers, panicking, expired, expiredAt, polls,
                   selector, waitErr, scaleSpec, pods, preRun, rsList, file, calls, notified,
                   exitCode>>

\* upload: PutObject returns, successfully only once the whole archive was
\* read (main.go:414-420), and Run returns (main.go:170-175)
UploadFinish ==
    /\ pc = "uploading"
    /\ \E ok \in Outcomes("upload") :
        /\ ok => progress.read = app.archiveSize
        /\ calls' = Append(calls, Req("putObject", app.archiveSize, "upload", ok))
        /\ err' = IF ok THEN Nil
                  ELSE Errorf("failed to upload to S3",
                         Errorf("failed to upload archive to S3", Cause("upload", ErrPut)))
    /\ pc' = "return"
    /\ UNCHANGED <<env, app, replicas, defers, panicking, expired, expiredAt, polls, selector,
                   waitErr, scaleSpec, pods, preRun, rsList, file, notified, exitCode,
                   progress>>

\* ------------------------------------------------------ the deferred calls

\* deferred cleanup (main.go:155-160): Close, then os.Remove, whose failure is logged
DeferCleanup ==
    /\ pc = "return" /\ defers # << >> /\ Top(defers) = "cleanup"
    /\ \E ok \in BOOLEAN :
        /\ file' = [file EXCEPT !.open = FALSE, !.closed = @ + 1,
                                !.onDisk = IF ok THEN FALSE ELSE @,
                                !.removed = IF ok THEN @ + 1 ELSE @]
        /\ calls' = Append(calls, Req("remove", -1, "none", ok))
    /\ defers' = Pop(defers)
    /\ UNCHANGED <<env, pc, app, err, replicas, panicking, expired, expiredAt, polls, selector,
                   waitErr, scaleSpec, pods, preRun, rsList, notified, exitCode,
                   progress>>

\* the error the deferred restore leaves in Run's result (main.go:134-145)
RestoreMerge(e, scaleErr) ==
    IF scaleErr = Nil THEN e
    ELSE IF e # Nil THEN ErrorfJoin(e, Errorf("failed to scale up", e))
    ELSE Errorf("failed to scale up", e)

\* the error of the undo closure (main.go:324-329) over scale (main.go:270-272)
UndoErr(ok, cause) ==
    IF ok THEN Nil ELSE Errorf("failed to scale up", Errorf("failed to scale to N", cause))

\* deferred restore (main.go:123-146): a fresh context, the undo closure, the merge
DeferRestore ==
    /\ pc = "return" /\ defers # << >> /\ Top(defers) = "restore"
    /\ \E ok \in Outcomes("restore") :
        /\ calls' = Append(calls, Req("patchScale", replicas, "restore", ok))
        /\ scaleSpec' = IF ok THEN replicas ELSE scaleSpec
        /\ err' = RestoreMerge(err, UndoErr(ok, Cause("restore", ErrPatch)))
    /\ expired' = expired \cup {"restore"}
    /\ defers' = Pop(defers)
    /\ UNCHANGED <<env, pc, app, replicas, panicking, expiredAt, polls, selector, waitErr,
                   pods, preRun, rsList, file, notified, exitCode,
                   progress>>

\* deferred cancel of the run context (main.go:116)
DeferCancel ==
    /\ pc = "return" /\ defers # << >> /\ Top(defers) = "cancel"
    /\ expired' = expired \cup {"run"}
    /\ defers' = Pop(defers)
    /\ UNCHANGED <<env, pc, app, err, replicas, panicking, expiredAt, polls, selector, waitErr,
                   scaleSpec, pods, preRun, rsList, file, calls, notified, exitCode,
                   progress>>

\* the argument of the deferred notify (main.go:106)
NotifySuccess(e) == e = Nil

\* the "Tarball size" line of the message (main.go:437-440): the archive size
\* when a.archiveFile is set, -1 for a message without that line
NotifySizeBug(a) == a.archiveSize
NotifySize(a) == IF a.archiveFile THEN a.archiveSize ELSE -1

\* deferred notify (main.go:105-107) and notify itself (main.go:423-456):
\* nothing is sent without a bot; a failed Send is only logged
DeferNotify ==
    /\ pc = "return" /\ defers # << >> /\ Top(defers) = "notify"
    /\ notified' = Append(notified, NotifySuccess(err))
    /\ IF app.tgBot
       THEN \E ok \in BOOLEAN : calls' = Append(calls, Req("send", NotifySize(app), "none", ok))
       ELSE calls' = calls
    /\ defers' = Pop(defers)
    /\ UNCHANGED <<env, pc, app, err, replicas, panicking, expired, expiredAt, polls, selector,
                   waitErr, scaleSpec, pods, preRun, rsList, file, exitCode,
                   progress>>

\* main's exit status after Run returned (main.go:479-483)
ExitCode(e) == IF e # Nil THEN 1 ELSE 0

\* exit status of the Go runtime after an unrecovered panic
PanicExit == 2

\* Run has run its deferred calls: main exits, or the panic ends the process
MainExit ==
    /\ pc = "return" /\ defers = << >>
    /\ pc' = "exited"
    /\ exitCode' = IF panicking THEN PanicExit ELSE ExitCode(err)
    /\ UNCHANGED <<env, app, err, replicas, defers, panicking, expired, expiredAt, polls,
                   selector, waitErr, scaleSpec, pods, preRun, rsList, file, calls, notified,
                   progress>>

Next ==
    \/ NewApplication
    \/ RunEnter
    \/ DeadlineExpires
    \/ GetReplicas
    \/ ScaleToZero
    \/ PodTerminates
    \/ GetPodTemplateHash
    \/ ListPods
    \/ Sleep
    \/ ScaleDownReturn
    \/ ArchiveCreate
    \/ ArchiveWrite
    \/ UploadBegin
    \/ UploadRead
    \/ UploadFinish
    \/ DeferCleanup
    \/ DeferRestore
    \/ DeferCancel
    \/ DeferNotify
    \/ MainExit

Spec == Init /\ [][Next]_vars

\* the steps of the program itself, as opposed to the passing of the deadline
\* and the termination of pods
ProgramStep ==
    \/ NewApplication
    \/ RunEnter
    \/ GetReplicas
    \/ ScaleToZero
    \/ GetPodTemplateHash
    \/ ListPods
    \/ Sleep
    \/ ScaleDownReturn
    \/ ArchiveCreate
    \/ ArchiveWrite
    \/ UploadBegin
    \/ UploadRead
    \/ UploadFinish
    \/ DeferCleanup
    \/ DeferRestore
    \/ DeferCancel
    \/ DeferNotify
    \/ MainExit

\* the single thread of control keeps running: every call it makes returns
FairSpec == Spec /\ WF_vars(ProgramStep)

\* ------------------------------------------- startup alone, over more identifiers
TypeTokens ==
    { "deployment", "deployments", "statefulset", "statefulsets", "replicaset", "replicasets",
      "Deployment", "StatefulSets", "REPLICASET", "pod" }

ParseNames == { <<"web">>, <<"replicasets">>, <<"a", "/", "b">>, << >> }

ParseIDs ==
    {<<t, "/">> \o n : t \in TypeTokens, n \in ParseNames}
        \cup {<<t>> : t \in TypeTokens}
        \cup {<<"/", "web">>, << >>}

InitParse ==
    /\ env \in [id : ParseIDs, wait : BOOLEAN, botToken : BOOLEAN,
                restValid : BOOLEAN, clientsOk : BOOLEAN]
    /\ pc = "main"
    /\ app = NoApp
    /\ err = Nil
    /\ replicas = 0
    /\ defers = << >>
    /\ panicking = FALSE
    /\ expired = {}
    /\ expiredAt = "none"
    /\ polls = 0
    /\ selector = ""
    /\ waitErr = Nil
    /\ scaleSpec = 0
    /\ pods = 0
    /\ preRun = 0
    /\ rsList = << >>
    /\ file = NoFile
    /\ calls = << >>
    /\ notified = << >>
    /\ exitCode = -1
    /\ progress = NoProgress

NextParse == NewApplication

SpecParse == InitParse /\ [][NextParse]_vars

\* ------------------------------------------------------------ observations
Reqs(op) == {i \in DOMAIN calls : calls[i].op = op}
PatchReqs == Reqs("patchScale")
RestoreReqs == {i \in PatchReqs : calls[i].ctx = "restore"}
ZeroReqs == {i \in PatchReqs : calls[i].ctx = "run"}

GetFailed == \E i \in Reqs("getScale") : ~calls[i].ok
GetOk == \E i \in Reqs("getScale") : calls[i].ok
ZeroFailed == \E i \in ZeroReqs : ~calls[i].ok
ZeroOk == \E i \in ZeroReqs : calls[i].ok
RestoreFailed == \E i \in RestoreReqs : ~calls[i].ok
RestoreOk == \E i \in RestoreReqs : calls[i].ok
PutFailed == \E i \in Reqs("putObject") : ~calls[i].ok
PutOk == \E i \in Reqs("putObject") : calls[i].ok

\* Run has returned to main (or the panic has left it)
RunReturned == pc = "exited" \/ (pc = "return" /\ defers = << >>)

\* scaleDown returned its undo closure to Run
ScaleDownReturned ==
    /\ ZeroOk
    /\ ~panicking
    /\ pc \in {"archive", "archiving", "upload", "uploading", "return", "exited"}

\* the main path failed in archive or upload, with the collaborator's cause
MainCauses == {ErrCreate[1], ErrTar[1], ErrPut[1]}
MainFailed == ScaleDownReturned /\ \E c \in MainCauses : Contains(err, c)

\* C1: once scaleDown returned successfully, the restore action is invoked
\* exactly once before Run returns, whatever archive and upload did; it is
\* never invoked twice.
C1_RestoreExactlyOnce ==
    /\ Cardinality(RestoreReqs) <= 1
    /\ (RunReturned /\ ScaleDownReturned) => Cardinality(RestoreReqs) = 1

C1_Witness ==
    /\ pc = "exited"
    /\ ScaleDownReturned
    /\ Contains(err, ErrTar[1])
    /\ Cardinality(RestoreReqs) = 1

\* C2: whenever the scale-to-zero request succeeded, the run issues a restore
\* (scale-to-N) request before it ends, however the optional wait ended.
C2_RestoreAfterScaleZero ==
    (pc = "exited" /\ ZeroOk) => RestoreReqs # {}

\* C3: the restore request carries exactly the replica count the workload had
\* before the run, and once it is accepted the workload's desired count at the
\* end of the run is that count, also when archive or upload failed.
C3_RestoreToPreRun ==
    /\ \A i \in RestoreReqs : calls[i].n = preRun
    /\ (pc = "exited" /\ RestoreOk) => scaleSpec = preRun

C3_Witness ==
    /\ pc = "exited"
    /\ RestoreOk
    /\ PutFailed
    /\ preRun = MaxReplicas
    /\ pods < preRun
    /\ scaleSpec = preRun

\* C4: a failed scale read is followed by no scale write at all, a failed
\* scale-to-zero by no further scale write; in both cases archive and upload
\* never start and Run returns a non-nil error (exit status 1).
C4_NoRestoreAfterFailedQuiesce ==
    /\ GetFailed => PatchReqs = {}
    /\ ZeroFailed => Cardinality(PatchReqs) = 1
    /\ (GetFailed \/ ZeroFailed) =>
          /\ file.created = 0
          /\ Reqs("putObject") = {}
          /\ pc \in {"return", "exited"}
          /\ err # Nil
          /\ (pc = "exited" => exitCode = 1)

C4_Witness ==
    /\ pc = "exited"
    /\ ZeroFailed
    /\ Cardinality(PatchReqs) = 1
    /\ exitCode = 1

\* C5: when the main path (archive or upload) failed and the restore failed
\* too, Run's error contains both the main-path cause and the error returned
\* by the restore action.
C5_BothCauses ==
    (RunReturned /\ MainFailed /\ RestoreFailed) =>
        /\ \E c \in MainCauses : Contains(err, c)
        /\ Contains(err, ErrPatch[1])

\* C6: when archive and upload succeeded and only the restore failed, Run's
\* error is non-nil and surfaces the restore action's own error.
C6_RestoreErrorSurfaced ==
    (RunReturned /\ PutOk /\ RestoreFailed) =>
        /\ err # Nil
        /\ Contains(err, ErrPatch[1])

\* every stage whose failure fails the run succeeded
AllSucceeded ==
    /\ ConfigValid(env) /\ env.clientsOk
    /\ GetOk /\ ZeroOk
    /\ app.archiveFile
    /\ PutOk
    /\ RestoreOk

\* C7: the process exits with 0 exactly when configuration, scale read,
\* scale-to-zero, archive, upload and restore all succeeded and with 1
\* otherwise, whatever the wait and the notification did.
C7_ExitCode ==
    pc = "exited" => exitCode = (IF AllSucceeded THEN 0 ELSE 1)

\* C8: in every execution of Run notify is invoked exactly once, as the last
\* step after the restore attempt, with a success flag that is true exactly
\* when the run's final outcome is success (nil error, exit status 0).
C8_NotifyOnceLast ==
    /\ Len(notified) <= 1
    /\ notified # << >> => (pc \in {"return", "exited"} /\ defers = << >>)
    /\ (pc = "exited" /\ calls # << >>) =>
          /\ Len(notified) = 1
          /\ notified[1] = (err = Nil)
          /\ notified[1] = (exitCode = 0)

\* C9: the run deadline covers archive and upload: when it passes while one
\* of them is in progress, that stage is cancelled and fails (and the run
\* goes on to the restore).
C9_DeadlineCancelsStage ==
    /\ (expiredAt = "archiving" /\ pc # "archiving") => ~app.archiveFile
    /\ (expiredAt = "uploading" /\ pc # "uploading") => PutFailed
    /\ (expiredAt \in {"archiving", "uploading"} /\ RunReturned) => RestoreReqs # {}

\* C10: the restore runs under its own deadline, independent of the run's:
\* every restore request is issued under a context that is not done, also
\* when the run deadline passed before, and it is then still attempted.
C10_RestoreFreshContext ==
    /\ \A i \in RestoreReqs : ~calls[i].ctxDone
    /\ (RunReturned /\ ScaleDownReturned /\ expiredAt # "none") =>
          \E i \in RestoreReqs : ~calls[i].ctxDone

C10_Witness ==
    /\ pc = "exited"
    /\ expiredAt \in {"poll", "sleep", "archiving", "uploading"}
    /\ RestoreOk
    /\ scaleSpec = preRun

RemoveReqs == Reqs("remove")

\* C11: on every exit path of a run in which the archiver created the
\* temporary file, the file is closed and deleted exactly once before the run
\* ends, and (unless os.Remove itself failed) it is no longer on disk.
C11_TempFileReleased ==
    (pc = "exited" /\ file.created > 0) =>
        /\ file.closed = 1
        /\ ~file.open
        /\ Cardinality(RemoveReqs) = 1
        /\ ((\A i \in RemoveReqs : calls[i].ok) => ~file.onDisk)

ListReqs == Reqs("listPods")
WaitPcs == {"podHash", "poll", "sleep"}
BeforeWaitPcs == {"main", "Run", "getReplicas", "scaleZero"}
WaitOver == pc \notin (BeforeWaitPcs \cup WaitPcs)

\* C12 (as claimed): a pod-list error that occurs while the deadline has not
\* expired does not end the wait: the wait goes on to the next tick.
C12_ListErrorRetried ==
    \A i \in ListReqs :
        (~calls[i].ok /\ ~calls[i].ctxDone) =>
            (pc \in {"poll", "sleep"} \/ \E j \in ListReqs : j > i)

\* C12 (amended): a failed pod-list call is not retried: the first list
\* error, deadline expired or not, ends the wait; wait's error is kept as a
\* warning only, so the run still gets its restore; a wait that ended
\* otherwise ended on an empty pod list.
C12_ListErrorEndsWait ==
    /\ \A i \in ListReqs :
          ~calls[i].ok =>
              /\ WaitOver
              /\ \A j \in ListReqs : j <= i
              /\ Contains(waitErr, "failed to list pods")
              /\ ~panicking
              /\ (RunReturned => RestoreReqs # {})
    /\ (WaitOver /\ ListReqs # {} /\ \A i \in ListReqs : calls[i].ok) =>
          PodsUnder(selector) = 0

C12_Witness ==
    /\ pc = "exited"
    /\ \E i \in ListReqs : ~calls[i].ok /\ ~calls[i].ctxDone
    /\ Contains(waitErr, ErrListPods[1])
    /\ RestoreOk
    /\ exitCode = 0

\* the wait ended because the deadline passed while pods were still listed
WaitTimedOut ==
    /\ env.wait
    /\ \E i \in ListReqs : calls[i].ctxDone
    /\ PodsUnder(selector) > 0

\* the archive stage was entered (os.Create was attempted)
ArchiveStarted == file.created > 0 \/ Contains(err, ErrCreate[1])

\* C13: with wait enabled and pods that outlast the deadline, the failed wait
\* is not fatal: scaleDown still succeeds, the run goes on to archive and
\* upload, and the restore is still executed.
C13_WaitTimeoutNonFatal ==
    WaitTimedOut =>
        /\ WaitOver
        /\ ~panicking
        /\ (pc \in {"return", "exited"} => ArchiveStarted)
        /\ ((pc \in {"return", "exited"} /\ app.archiveFile) => Reqs("putObject") # {})
        /\ (RunReturned => Cardinality(RestoreReqs) = 1)

C13_Witness ==
    /\ pc = "exited"
    /\ WaitTimedOut
    /\ polls = MaxPolls
    /\ PutOk
    /\ RestoreOk
    /\ exitCode = 0

\* lower-case form of a TYPE word
LowerTok(t) ==
    CASE t = "Deployment" -> "deployment"
      [] t = "StatefulSets" -> "statefulsets"
      [] t = "REPLICASET" -> "replicaset"
      [] OTHER -> t

\* the kind a lower-case TYPE word, singular or plural, stands for
ExpectedKind(t) ==
    CASE t \in {"deployment", "deployments"} -> "Deployment"
      [] t \in {"statefulset", "statefulsets"} -> "StatefulSet"
      [] t \in {"replicaset", "replicasets"} -> "ReplicaSet"
      [] OTHER -> "none"

\* id is WORD/NAME with a non-empty NAME
HasTypeAndName(id) == Len(id) >= 3 /\ id[1] # "/" /\ id[2] = "/"
NameOfId(id) == SubSeq(id, 3, Len(id))

\* startup got past configuration and client creation
StartupRan == pc # "main" /\ env.restValid /\ env.clientsOk

\* C14 (as claimed): every TYPE/NAME with non-empty NAME whose TYPE is
\* deployment, statefulset or replicaset in any letter case, singular or
\* plural, is accepted and normalized to Deployment, StatefulSet or ReplicaSet.
C14_AnyCaseAccepted ==
    (StartupRan /\ HasTypeAndName(env.id) /\ ExpectedKind(LowerTok(env.id[1])) # "none") =>
        /\ pc = "Run"
        /\ app.resourceKind = ExpectedKind(LowerTok(env.id[1]))
        /\ app.resourceName = NameOfId(env.id)

\* C14 (amended): every TYPE/NAME with non-empty NAME whose TYPE is one of the
\* lower-case words deployment(s), statefulset(s), replicaset(s) is accepted
\* and normalized to Deployment, StatefulSet or ReplicaSet.
C14_LowerCaseAccepted ==
    (StartupRan /\ HasTypeAndName(env.id) /\ ExpectedKind(env.id[1]) # "none") =>
        /\ pc = "Run"
        /\ app.resourceKind = ExpectedKind(env.id[1])
        /\ app.resourceName = NameOfId(env.id)

C14_Witness ==
    /\ pc = "Run"
    /\ env.id = <<"statefulsets", "/", "a", "/", "b">>
    /\ app.resourceKind = "StatefulSet"
    /\ app.resourceName = <<"a", "/", "b">>

\* id is not lower-case TYPE/NAME: no "/", empty NAME or unknown TYPE
Malformed(id) == ~(HasTypeAndName(id) /\ ExpectedKind(id[1]) # "none")

\* C15: with a malformed identifier or any other invalid configuration,
\* startup fails with exit status 1 before any client is created or called:
\* no scale read or write, pod list, upload or notification ever happens.
C15_InvalidConfigNoSideEffect ==
    (Malformed(env.id) \/ ~env.restValid) =>
        /\ calls = << >>
        /\ notified = << >>
        /\ app = NoApp
        /\ file = NoFile
        /\ pc \in {"main", "exited"}
        /\ (pc = "exited" => exitCode = 1)

C15_Witness ==
    /\ pc = "exited"
    /\ env.id = <<"deployment", "/">>
    /\ env.restValid /\ env.clientsOk
    /\ exitCode = 1
    /\ calls = << >>

ClusterOps == {"getScale", "patchScale", "listRS", "getRS", "listPods"}
ClusterReqs == {i \in DOMAIN calls : calls[i].op \in ClusterOps}

\* C16: when RESOURCE_WAIT is not set, the only requests a run sends to the
\* cluster are the get and the patch of the target's scale subresource; a
\* ReplicaSet get or list or a pod list is issued only when it is set.
C16_NoWaitOnlyScale ==
    /\ ~env.wait => \A i \in ClusterReqs : calls[i].op \in {"getScale", "patchScale"}
    /\ (Reqs("listRS") \cup Reqs("getRS") \cup Reqs("listPods")) # {} => env.wait

C16_Witness ==
    /\ pc = "exited"
    /\ ~env.wait
    /\ GetOk /\ ZeroOk /\ RestoreOk
    /\ Cardinality(ClusterReqs) = 3

\* C17: the pod-selector label is resolved by the target's kind: a ReplicaSet
\* target by a direct get of the ReplicaSet named NAME, a Deployment or
\* StatefulSet target by listing ReplicaSets and matching the owner reference.
C17_ResolutionByKind ==
    /\ app.resourceKind = "ReplicaSet" => Reqs("listRS") = {}
    /\ app.resourceKind \in {"Deployment", "StatefulSet"} => Reqs("getRS") = {}
    /\ (env.wait /\ ZeroOk /\ pc \notin WaitPcs /\ pc # "scaleZero") =>
          (Reqs("listRS") \cup Reqs("getRS")) # {}

\* C18 (as claimed): the temporary archive file is deleted only after the
\* upload stage has resolved and never before the restore action has run.
C18_RemoveAfterRestore ==
    \A i \in RemoveReqs :
        /\ \E j \in Reqs("putObject") : j < i
        /\ \E j \in RestoreReqs : j < i

\* C18 (amended): the temporary archive file is deleted only after the upload
\* stage has resolved, and always before the restore action runs (the
\* cleanup is deferred last, so it runs first).
C18_RemoveBeforeRestore ==
    \A i \in RemoveReqs :
        /\ \E j \in Reqs("putObject") : j < i
        /\ \A j \in RestoreReqs : j > i
        /\ (RunReturned => \E j \in RestoreReqs : j > i)

C18_Witness ==
    /\ pc = "exited"
    /\ PutFailed
    /\ \E i \in RemoveReqs : calls[i].ok /\ \E j \in RestoreReqs : j > i /\ calls[j].ok
    /\ ~file.onDisk

\* C19: the optional wait always terminates: a pod list issued after the
\* deadline has passed fails and ends the wait, so scaleDown leaves the wait
\* even when the pods never disappear.
C19_WaitTerminates ==
    /\ [](\A i \in ListReqs :
            calls[i].ctxDone => (~calls[i].ok /\ WaitOver /\ \A j \in ListReqs : j <= i))
    /\ ((pc \in WaitPcs) ~> (pc \notin WaitPcs))

C19_Witness ==
    /\ pc = "scaleDownReturn"
    /\ pods > 0
    /\ PodsUnder(selector) = pods
    /\ polls = MaxPolls
    /\ \E i \in ListReqs : calls[i].ctxDone /\ ~calls[i].ok

\* bytesMoved of the observation before the i-th, 0 before the first
MovedBefore(i) == IF i = 1 THEN 0 ELSE progress.obs[i - 1].bytesMoved

\* C20: the upload progress counter never decreases from one observation to
\* the next, each read of n bytes adds exactly n, it never exceeds the
\* artifact's size, and once the whole artifact has been read the last
\* observation's bytesMoved equals that size.
C20_ProgressMonotone ==
    /\ \A i \in DOMAIN progress.obs :
          /\ progress.obs[i].bytesMoved = MovedBefore(i) + progress.obs[i].n
          /\ progress.obs[i].bytesMoved >= MovedBefore(i)
          /\ progress.obs[i].bytesMoved <= progress.obs[i].totalBytes
          /\ progress.obs[i].totalBytes = app.archiveSize
    /\ (progress.obs # << >> /\ progress.read = app.archiveSize) =>
          progress.obs[Len(progress.obs)].bytesMoved = app.archiveSize
    /\ PutOk => progress.current = app.archiveSize

C20_Witness ==
    /\ PutOk
    /\ Len(progress.obs) >= 2
    /\ progress.obs[1].bytesMoved < app.archiveSize
    /\ progress.obs[Len(progress.obs)].bytesMoved = app.archiveSize

SendReqs == Reqs("send")

\* C21: the notification carries the archive size exactly when the archive
\* stage completed successfully in this run (the upload was then attempted,
\* whatever it and the restore did), and the size is that of the archive; it
\* carries none when quiesce or archive failed.
C21_SizeIffArchived ==
    \A i \in SendReqs :
        /\ (calls[i].n # -1) <=> (Reqs("putObject") # {})
        /\ \A j \in Reqs("putObject") : calls[i].n = calls[j].n
        /\ (GetFailed \/ ZeroFailed \/ Contains(err, ErrCreate[1]) \/ Contains(err, ErrTar[1]))
              => calls[i].n = -1

C21_Witness ==
    /\ pc = "exited"
    /\ PutFailed
    /\ RestoreFailed
    /\ \E i \in SendReqs : calls[i].n = 0

ArchivePcs == {"archiving", "upload", "uploading"}
UploadPcs == {"uploading"}

\* the archive stage has resolved: it failed, or it succeeded and the upload,
\* which then always runs, has resolved too
StagesResolved ==
    \/ Contains(err, ErrCreate[1])
    \/ Contains(err, ErrTar[1])
    \/ (app.archiveFile /\ Reqs("putObject") # {})

\* C22: the stages are strictly ordered: archive starts only after the
\* scale-to-zero request succeeded, upload starts only after archive succeeded,
\* and no scale request with a non-zero count is issued before the archive and
\* upload stages have both resolved (nor while either of them is running).
C22_StagesOrdered ==
    /\ (pc \in ArchivePcs \/ ArchiveStarted) =>
          /\ ZeroOk
          /\ \A i \in ZeroReqs : calls[i].ok
    /\ (pc \in UploadPcs \/ Reqs("putObject") # {}) =>
          /\ app.archiveFile
          /\ file.created > 0
          /\ ~Contains(err, ErrTar[1])
    /\ pc \in ArchivePcs => \A i \in PatchReqs : calls[i].n = 0
    /\ \A i \in PatchReqs : calls[i].n # 0 =>
          /\ pc \in {"return", "exited"}
          /\ StagesResolved
          /\ \A j \in Reqs("putObject") : j < i
          /\ \E z \in ZeroReqs : z < i /\ calls[z].ok

C22_Witness ==
    /\ pc = "exited"
    /\ PutOk
    /\ \E i \in RestoreReqs : calls[i].n = MaxReplicas /\ calls[i].ok

\* the resourceType/resourceKind pairs NewApplication may set
TypeKindPairs ==
    { <<"deployments", "Deployment">>, <<"statefulsets", "StatefulSet">>,
      <<"replicasets", "ReplicaSet">> }

\* C23: the validator and the startup parser agree: for every identifier that
\* ResourceConfig.Validate accepts, the split yields two parts, and once
\* NewApplication has parsed it resourceName is the non-empty second part and
\* resourceType/resourceKind is one of the three known pairs, never empty.
C23_ValidatorParserAgree ==
    ValidID(env.id) =>
        /\ Len(SplitN2(env.id)) = 2
        /\ (pc # "main" /\ env.restValid /\ env.clientsOk) =>
              /\ pc = "Run"
              /\ app.resourceName = SplitN2(env.id)[2]
              /\ app.resourceName # << >>
              /\ app.resourceType # ""
              /\ app.resourceKind # ""
              /\ <<app.resourceType, app.resourceKind>> \in TypeKindPairs

C23_Witness ==
    /\ pc = "Run"
    /\ env.id = <<"replicasets", "/", "a", "/", "b">>
    /\ app.resourceName = <<"a", "/", "b">>
    /\ <<app.resourceType, app.resourceKind>> = <<"replicasets", "ReplicaSet">>

====
